---- MODULE Spec2Model ----
(***************************************************************************)
(* Sliding-window chirp detection (src/src/detect.py, class Detector) and  *)
(* the tolerance-matching evaluation of its detections                     *)
(* (src/chirpdetector-cnn/benchmark_detector.py, main).                    *)
(*                                                                         *)
(* Conventions.  Python arrays are TLA+ sequences; At(a, i) reads Python   *)
(* index i.  Python's None is the empty set and a present value v is {v}.  *)
(* Probabilities are counted in tenths (0.5 is 5), evaluation times in     *)
(* units of 0.02 s (0.04 s is 2).  A float quotient a / b is kept as the   *)
(* pair <<a, b>>; the pair <<0, 0>> is the quotient 0 / 0, a NaN.          *)
(***************************************************************************)
EXTENDS Integers, Sequences, FiniteSets, TLC

VARIABLES
    \* ---- Detector: inputs
    mode,                 \* the mode argument of Detector.__init__
    conf_window,          \* int(conf.time_pad * 2 * fill_samplerate)
    conf_stride,          \* int(conf.stride * fill_samplerate)
    freq_pad,             \* conf.freq_pad, a pair of offsets
    plot,                 \* the plot argument of detect()
    fill_times,           \* data.fill_times, strictly increasing
    fill_spec,            \* data.fill_spec[frequency][time]
    ident_v,              \* data.ident_v
    \* ---- Detector: object fields
    window_size,
    stride,
    detected_chirps,
    detected_chirp_probs,
    detected_chirp_ids,
    \* ---- Detector: control and locals of _detect_memory
    pc,
    outcome,              \* what the caller of detect() observes
    window_start_indices,
    track_ids,            \* np.unique(data.ident_v)
    trackPos,             \* position of the outer loop in track_ids
    winPos,               \* position of the inner loop in window_start_indices
    predicted_probs,
    center_t,
    acc_chirps,           \* the local list detected_chirps
    acc_probs,            \* the local list detected_chirp_probs
    acc_ids,              \* the local list detected_chirp_ids
    window_start_index,   \* of the window classified last
    center_idx,           \* of the window classified last
    marked_idx,           \* index plotted as the window center, when plotting
    crop_range,           \* np.max - np.min of the crop classified last
    snippet,              \* the image handed to the classifier last
    calls,                \* classifier invocations so far: <<track_id, time>>
    \* ---- Peak extraction on its own
    probs,
    peaks,
    ppc,
    \* ---- Evaluator (benchmark_detector.main)
    gt_times,             \* gt.correct_chirp_times
    gt_ids,               \* gt.correct_chirp_time_ids
    chirp_times,
    chirp_idents,
    epc,
    fish_ids,             \* np.unique(gt.correct_chirp_time_ids)
    fishPos,
    fn_counter,
    fp_counter,
    precs,
    recs,
    report                \* the three printed statistics

dvars == <<mode, conf_window, conf_stride, freq_pad, plot, fill_times, fill_spec,
           ident_v, window_size, stride, detected_chirps, detected_chirp_probs,
           detected_chirp_ids, pc, outcome, window_start_indices, track_ids,
           trackPos, winPos, predicted_probs, center_t, acc_chirps, acc_probs,
           acc_ids, window_start_index, center_idx, marked_idx, crop_range,
           snippet, calls>>
pvars == <<probs, peaks, ppc>>
evars == <<gt_times, gt_ids, chirp_times, chirp_idents, epc, fish_ids, fishPos,
           fn_counter, fp_counter, precs, recs, report>>
vars == <<dvars, pvars, evars>>

(***************************************************************************)
(* Bounds of the model                                                     *)
(***************************************************************************)
MaxRawWindow == 2       \* configured window sizes 0..MaxRawWindow
MaxRawStride == 2       \* configured strides 0..MaxRawStride
MaxLast == 5            \* longest spectrogram time axis
MaxSamples == 2         \* longest ident_v
MaxSeries == 5          \* longest probability series given to find_peaks alone
MaxEvents == 2          \* longest ground-truth / detection array

(***************************************************************************)
(* Program constants                                                       *)
(***************************************************************************)
PeakHeight == 5         \* find_peaks(..., height=0.5), in tenths
tolerance == 2          \* tolerance = 0.04, in units of 0.02 s

Idents == {1, 2}
Modes == {"memory", "disk", "tape"}
FreqPads == {<<0 - 1, 1>>, <<0, 0>>}
SpecKinds == {"flat", "pulse", "ramp"}

None == {}
Some(v) == {v}
NaN == 0 - 1            \* a probability that is not a number

At(a, i) == a[i + 1]
Abs(x) == IF x < 0 THEN 0 - x ELSE x
Range(s) == {s[k] : k \in DOMAIN s}

\* IEEE comparisons of probabilities: every comparison with NaN is false
FLt(a, b) == a # NaN /\ b # NaN /\ a < b
FEq(a, b) == a # NaN /\ b # NaN /\ a = b
FLe(a, b) == a # NaN /\ b # NaN /\ a <= b

RECURSIVE SeqsUpTo(_, _)
SeqsUpTo(S, n) ==
    IF n = 0 THEN {<<>>}
    ELSE LET shorter == SeqsUpTo(S, n - 1)
         IN shorter \cup {Append(s, x) : s \in shorter, x \in S}

RECURSIVE SortedSeq(_)
SortedSeq(S) ==
    IF S = {} THEN <<>>
    ELSE LET m == CHOOSE x \in S : \A y \in S : x <= y
         IN <<m>> \o SortedSeq(S \ {m})

\* a[mask]: the entries of a at the positions where keep holds
RECURSIVE Select(_, _, _)
Select(a, keep, k) ==
    IF k > Len(a) THEN <<>>
    ELSE (IF keep[k] THEN <<a[k]>> ELSE <<>>) \o Select(a, keep, k + 1)

RECURSIVE Concat(_)
Concat(ss) == IF ss = <<>> THEN <<>> ELSE Head(ss) \o Concat(Tail(ss))

(***************************************************************************)
(* The dataset behind a Detector                                           *)
(***************************************************************************)
\* data.fill_freqs: the frequency axis of the spectrogram, ascending
fill_freqs == <<0, 1, 2, 3>>

\* data.fund_v, aligned with ident_v: the frequency of each labelled sample
fund_v == [k \in 1..Len(ident_v) |-> 1 + ((ident_v[k] + k) % 2)]

\* data.idx_v, aligned with ident_v: each labelled sample's index into times
idx_v == [k \in 1..Len(ident_v) |-> k - 1]

\* data.times: the time axis of the tracks, coarser than fill_times
times == [k \in 1..Len(ident_v) |-> 2 * (k - 1)]

\* The time axis of a spectrogram of n columns: strictly increasing, uneven
FillAxis(n) == [k \in 1..n |-> 2 * (k - 1) + (k % 2)]

\* The spectrograms of n columns: constant, one bright column, or a gradient
SpecOf(kind, n) ==
    [f \in 1..Len(fill_freqs) |->
        [t \in 1..n |->
            CASE kind = "flat" -> 1
              [] kind = "pulse" -> (IF t = 3 THEN 2 ELSE 0)
              [] OTHER -> (f + t) % 3]]

(***************************************************************************)
(* Detector.__init__                                                       *)
(***************************************************************************)
\* variant: the increment without the parity test
MakeOddAlways(n) == n + 1

\* if n % 2 == 0: n += 1
MakeOdd(n) == IF n % 2 = 0 THEN n + 1 ELSE n

(***************************************************************************)
(* Helpers of Detector._detect_memory                                      *)
(***************************************************************************)
\* variant: a range that includes its stop value
ArangeInclusive(start, stop, step) ==
    LET n == IF stop >= start THEN (stop - start) \div step + 1 ELSE 0
    IN [k \in 1..n |-> start + (k - 1) * step]

\* np.arange(start, stop, step): start, start + step, ... below stop
Arange(start, stop, step) ==
    LET n == IF stop > start THEN (stop - start + step - 1) \div step ELSE 0
    IN [k \in 1..n |-> start + (k - 1) * step]

RECURSIVE FirstSeen(_, _)
FirstSeen(a, seen) ==
    IF a = <<>> THEN <<>>
    ELSE IF Head(a) \in seen THEN FirstSeen(Tail(a), seen)
    ELSE <<Head(a)>> \o FirstSeen(Tail(a), seen \cup {Head(a)})

\* variant: the distinct values in order of first occurrence
UniqueUnsorted(a) == FirstSeen(a, {})

\* np.unique(a): the distinct values of a, ascending
Unique(a) == SortedSeq(Range(a))

\* int(window_start_index + np.floor(self.window_size / 2) + 1)
CenterIdx(start, size) == start + (size \div 2) + 1

\* window_start_index + self.window_size // 2, the plotted window center
PlotCenterIdx(start, size) == start + (size \div 2)

\* find_on_time(axis, query): the index of the axis sample nearest the query
find_on_time(axis, query) ==
    CHOOSE i \in 0..(Len(axis) - 1) :
        /\ \A j \in 0..(Len(axis) - 1) :
              Abs(At(axis, i) - query) <= Abs(At(axis, j) - query)
        /\ \A j \in 0..(i - 1) :
              Abs(At(axis, j) - query) > Abs(At(axis, i) - query)

\* spec[f_lo:f_hi, t_lo:t_hi]
Crop(spec, f_lo, f_hi, t_lo, t_hi) ==
    [r \in 1..(f_hi - f_lo) |->
        [c \in 1..(t_hi - t_lo) |-> At(At(spec, f_lo + r - 1), t_lo + c - 1)]]

Cells(img) == {img[r][c] : r \in DOMAIN img, c \in 1..Len(img[1])}
MinOf(S) == CHOOSE x \in S : \A y \in S : x <= y
MaxOf(S) == CHOOSE x \in S : \A y \in S : x >= y

\* (snippet - np.min(snippet)) / (np.max(snippet) - np.min(snippet))
Normalize(crop) ==
    LET lo == MinOf(Cells(crop))
        hi == MaxOf(Cells(crop))
    IN [r \in DOMAIN crop |-> [c \in DOMAIN crop[r] |->
           <<crop[r][c] - lo, hi - lo>>]]

\* resize_image(snippet, conf.img_size_px): resampling to a fixed pixel shape
img_size_px == <<2, 2>>
resize_image(img, shape) ==
    [r \in 1..shape[1] |-> [c \in 1..shape[2] |->
        img[((r - 1) * Len(img)) \div shape[1] + 1]
           [((c - 1) * Len(img[1])) \div shape[2] + 1]]]

IsNaNPixel(q) == q[2] = 0
HasNaN(img) == \E q \in Cells(img) : IsNaNPixel(q)
IsConstant(img) == \A q1, q2 \in Cells(img) : q1[1] * q2[2] = q2[1] * q1[2]

\* classify_single(img): the probabilities the pretrained network may return.
\* Arithmetic on a NaN image yields NaN logits, and softmax of them is NaN.
ProbLevels == {PeakHeight - 3, PeakHeight + 3}
classify_single(img) == IF HasNaN(img) THEN {NaN} ELSE ProbLevels

(***************************************************************************)
(* scipy.signal.find_peaks(x, height=h), as called by _detect_memory       *)
(***************************************************************************)
\* the inner while: i_ahead advances over the samples equal to x[i]
RECURSIVE PlateauEnd(_, _, _)
PlateauEnd(x, i, i_ahead) ==
    IF i_ahead < Len(x) - 1 /\ FEq(At(x, i_ahead), At(x, i))
    THEN PlateauEnd(x, i, i_ahead + 1)
    ELSE i_ahead

\* the outer while, from index i on: a rising edge followed, after a run of
\* equal samples, by a falling edge is a peak at the run's middle (rounded down)
RECURSIVE LocalMaxima(_, _)
LocalMaxima(x, i) ==
    IF i >= Len(x) - 1 THEN <<>>
    ELSE IF FLt(At(x, i - 1), At(x, i))
         THEN LET i_ahead == PlateauEnd(x, i, i + 1)
              IN IF FLt(At(x, i_ahead), At(x, i))
                 THEN <<(i + (i_ahead - 1)) \div 2>> \o LocalMaxima(x, i_ahead + 1)
                 ELSE LocalMaxima(x, i + 1)
         ELSE LocalMaxima(x, i + 1)

\* variant: strict local maxima only, plateaus dropped
find_peaks_strict(x) ==
    SortedSeq({i \in 1..(Len(x) - 2) :
                 /\ FLt(At(x, i - 1), At(x, i))
                 /\ FLt(At(x, i + 1), At(x, i))
                 /\ FLe(PeakHeight, At(x, i))})

\* variant: the middle of a plateau rounded up
RECURSIVE LocalMaximaRoundUp(_, _)
LocalMaximaRoundUp(x, i) ==
    IF i >= Len(x) - 1 THEN <<>>
    ELSE IF FLt(At(x, i - 1), At(x, i))
         THEN LET i_ahead == PlateauEnd(x, i, i + 1)
              IN IF FLt(At(x, i_ahead), At(x, i))
                 THEN <<(i + (i_ahead - 1) + 1) \div 2>>
                          \o LocalMaximaRoundUp(x, i_ahead + 1)
                 ELSE LocalMaximaRoundUp(x, i + 1)
         ELSE LocalMaximaRoundUp(x, i + 1)

find_peaks_round_up(x) ==
    LET all == LocalMaximaRoundUp(x, 1)
    IN Select(all, [k \in DOMAIN all |-> FLe(PeakHeight, At(x, all[k]))], 1)

\* peaks, _ = find_peaks(predicted_probs, height=0.5)
find_peaks(x) ==
    LET all == LocalMaxima(x, 1)
    IN Select(all, [k \in DOMAIN all |-> FLe(PeakHeight, At(x, all[k]))], 1)

\* a[peaks]
Take(a, idx) == [k \in DOMAIN idx |-> At(a, idx[k])]

(***************************************************************************)
(* Detector: initial state and actions                                     *)
(***************************************************************************)
inputs == <<mode, conf_window, conf_stride, freq_pad, plot, fill_times,
            fill_spec, ident_v>>
fields == <<window_size, stride, detected_chirps, detected_chirp_probs,
            detected_chirp_ids>>
lists == <<acc_chirps, acc_probs, acc_ids>>
lastWindow == <<window_start_index, center_idx, marked_idx, crop_range, snippet>>

DetectorIdle ==
    /\ window_size = 0 /\ stride = 0
    /\ detected_chirps = None
    /\ detected_chirp_probs = None
    /\ detected_chirp_ids = None
    /\ pc = "new" /\ outcome = "pending"
    /\ window_start_indices = <<>> /\ track_ids = <<>>
    /\ trackPos = 0 /\ winPos = 0
    /\ predicted_probs = <<>> /\ center_t = <<>>
    /\ acc_chirps = <<>> /\ acc_probs = <<>> /\ acc_ids = <<>>
    /\ window_start_index = 0 /\ center_idx = 0 /\ marked_idx = None
    /\ crop_range = 0 /\ snippet = <<>> /\ calls = <<>>

\* Every configuration and dataset within the bounds; a Detector that is not
\* in mode memory never reads its dataset, so one dataset stands for all
DetectorInit ==
    /\ mode \in Modes
    /\ conf_window \in 0..MaxRawWindow
    /\ conf_stride \in 0..MaxRawStride
    /\ \/ /\ mode = "memory"
          /\ freq_pad \in FreqPads
          /\ plot \in BOOLEAN
          /\ \E n \in 1..MaxLast :
                /\ fill_times = FillAxis(n)
                /\ fill_spec \in {SpecOf(kind, n) : kind \in SpecKinds}
          /\ ident_v \in SeqsUpTo(Idents, MaxSamples) \ {<<>>}
       \/ /\ mode # "memory"
          /\ freq_pad = <<0 - 1, 1>>
          /\ plot = FALSE
          /\ fill_times = FillAxis(MaxLast)
          /\ fill_spec = SpecOf("ramp", MaxLast)
          /\ ident_v = <<1>>
    /\ DetectorIdle

\* __init__ with a mode outside {memory, disk}: the assert fails
ConstructRejects ==
    /\ pc = "new"
    /\ mode \notin {"memory", "disk"}
    /\ pc' = "assert_failed"
    /\ outcome' = "raised"
    /\ UNCHANGED <<inputs, fields, window_start_indices, track_ids, trackPos,
                   winPos, predicted_probs, center_t, lists, lastWindow, calls>>

\* __init__
Construct ==
    /\ pc = "new"
    /\ mode \in {"memory", "disk"}
    /\ window_size' = MakeOdd(conf_window)
    /\ stride' = MakeOdd(conf_stride)
    /\ detected_chirps' = None
    /\ detected_chirp_ids' = None
    /\ pc' = "constructed"
    /\ UNCHANGED <<inputs, detected_chirp_probs, outcome, window_start_indices,
                   track_ids, trackPos, winPos, predicted_probs, center_t, lists,
                   lastWindow, calls>>

\* detect() in mode disk: _detect_disk logs a message and returns
DetectDisk ==
    /\ pc = "constructed"
    /\ mode # "memory"
    /\ pc' = "done"
    /\ outcome' = "returned"
    /\ UNCHANGED <<inputs, fields, window_start_indices, track_ids, trackPos,
                   winPos, predicted_probs, center_t, lists, lastWindow, calls>>

\* detect() in mode memory, up to the head of the loop over the tracks
DetectMemory ==
    /\ pc = "constructed"
    /\ mode = "memory"
    /\ window_start_indices' =
           Arange(0, Len(fill_times) - window_size, stride)
    /\ acc_chirps' = <<>> /\ acc_probs' = <<>> /\ acc_ids' = <<>>
    /\ track_ids' = Unique(ident_v)
    /\ trackPos' = 1
    /\ pc' = "track"
    /\ UNCHANGED <<inputs, fields, outcome, winPos, predicted_probs, center_t,
                   lastWindow, calls>>

\* the outer loop takes the next track
NextTrack ==
    /\ pc = "track"
    /\ trackPos <= Len(track_ids)
    /\ predicted_probs' = <<>>
    /\ center_t' = <<>>
    /\ winPos' = 1
    /\ pc' = "window"
    /\ UNCHANGED <<inputs, fields, outcome, window_start_indices, track_ids,
                   trackPos, lists, lastWindow, calls>>

track_id == track_ids[trackPos]
\* self.data.fund_v[self.data.ident_v == track_id]
track == Select(fund_v, [k \in DOMAIN ident_v |-> ident_v[k] = track_id], 1)
\* self.data.times[self.data.idx_v[self.data.ident_v == track_id]]
time ==
    LET sel == Select(idx_v, [k \in DOMAIN ident_v |-> ident_v[k] = track_id], 1)
    IN Take(times, sel)

\* everything one pass of the inner loop computes before the classifier runs
Window(start) ==
    LET window_end_index == start + window_size
        c_idx == CenterIdx(start, window_size)
        window_center_t == At(fill_times, c_idx)
        track_index == find_on_time(time, window_center_t)
        center_freq == At(track, track_index)
        freq_min == center_freq + freq_pad[1]
        freq_max == center_freq + freq_pad[2]
        freq_min_index == find_on_time(fill_freqs, freq_min)
        freq_max_index == find_on_time(fill_freqs, freq_max)
    IN [end |-> window_end_index,
        center_idx |-> c_idx,
        center_t |-> window_center_t,
        crop |-> Crop(fill_spec, freq_min_index, freq_max_index,
                      start, window_end_index)]

\* one pass of the inner loop
ScanWindow ==
    /\ pc = "window"
    /\ winPos <= Len(window_start_indices)
    /\ LET start == window_start_indices[winPos]
           w == Window(start)
       IN /\ w.crop # <<>>
          /\ LET img == resize_image(Normalize(w.crop), img_size_px)
             IN /\ snippet' = img
                /\ \E prob \in classify_single(img) :
                      predicted_probs' = Append(predicted_probs, prob)
          /\ crop_range' = MaxOf(Cells(w.crop)) - MinOf(Cells(w.crop))
          /\ center_t' = Append(center_t, w.center_t)
          /\ calls' = Append(calls, <<track_id, w.center_t>>)
          /\ window_start_index' = start
          /\ center_idx' = w.center_idx
          /\ marked_idx' = IF plot THEN Some(PlotCenterIdx(start, window_size))
                           ELSE marked_idx
    /\ winPos' = winPos + 1
    /\ UNCHANGED <<inputs, fields, pc, outcome, window_start_indices, track_ids,
                   trackPos, lists>>

\* one pass of the inner loop whose crop is empty: np.min raises ValueError
ScanWindowRaises ==
    /\ pc = "window"
    /\ winPos <= Len(window_start_indices)
    /\ Window(window_start_indices[winPos]).crop = <<>>
    /\ pc' = "aborted"
    /\ outcome' = "raised"
    /\ UNCHANGED <<inputs, fields, window_start_indices, track_ids, trackPos,
                   winPos, predicted_probs, center_t, lists, lastWindow, calls>>

\* after the inner loop: the peaks of the track's probabilities are its chirps
FinishTrack ==
    /\ pc = "window"
    /\ winPos > Len(window_start_indices)
    /\ LET pk == find_peaks(predicted_probs)
           peaktimes == Take(center_t, pk)
           peakprobs == Take(predicted_probs, pk)
       IN /\ acc_chirps' = Append(acc_chirps, peaktimes)
          /\ acc_probs' = Append(acc_probs, peakprobs)
          /\ acc_ids' = Append(acc_ids, [k \in DOMAIN peaktimes |-> track_id])
    /\ trackPos' = trackPos + 1
    /\ pc' = "track"
    /\ UNCHANGED <<inputs, fields, outcome, window_start_indices, track_ids,
                   winPos, predicted_probs, center_t, lastWindow, calls>>

\* after the outer loop: the results become fields and detect() returns
Concatenate ==
    /\ pc = "track"
    /\ trackPos > Len(track_ids)
    /\ detected_chirps' = Some(Concat(acc_chirps))
    /\ detected_chirp_probs' = Some(Concat(acc_probs))
    /\ detected_chirp_ids' = Some(Concat(acc_ids))
    /\ pc' = "done"
    /\ outcome' = "returned"
    /\ UNCHANGED <<inputs, window_size, stride, window_start_indices, track_ids,
                   trackPos, winPos, predicted_probs, center_t, lists,
                   lastWindow, calls>>

(***************************************************************************)
(* Peak extraction on its own: find_peaks applied to a given series        *)
(***************************************************************************)
PeakValues == {PeakHeight - 1, PeakHeight, PeakHeight + 1, NaN}
ExampleSeries == <<1, 6, 3, 9, 9, 2>>

PeaksIdle == probs = <<>> /\ peaks = <<>> /\ ppc = "idle"

PeaksInit ==
    /\ probs \in SeqsUpTo(PeakValues, MaxSeries) \cup {ExampleSeries}
    /\ peaks = <<>>
    /\ ppc = "ready"

ExtractPeaks ==
    /\ ppc = "ready"
    /\ peaks' = find_peaks(probs)
    /\ ppc' = "done"
    /\ UNCHANGED probs

(***************************************************************************)
(* benchmark_detector.main: the evaluation of detections                   *)
(***************************************************************************)
EvalTimes == {0, 1, 3}
Events == SeqsUpTo(EvalTimes \X Idents, MaxEvents)
TimesOf(ev) == [k \in DOMAIN ev |-> ev[k][1]]
IdsOf(ev) == [k \in DOMAIN ev |-> ev[k][2]]

\* identity 1: truth 1.0 s, 5.0 s, detected 1.02 s, 5.5 s; identity 2: truth 2.0 s
ScenarioTruth == <<<<50, 1>>, <<250, 1>>, <<100, 2>>>>
ScenarioDetections == <<<<51, 1>>, <<275, 1>>>>

\* variant: the comparison with <=
WithinInclusive(a, b) == Abs(a - b) <= tolerance

\* np.abs(a - b) < tolerance
Within(a, b) == Abs(a - b) < tolerance

\* variant: the count without the negation
CountMatched(xs, ys) ==
    Cardinality({k \in DOMAIN xs : \E j \in DOMAIN ys : Abs(xs[k] - ys[j]) < tolerance})

\* the counting loops: the entries of xs with no entry of ys within tolerance
CountUnmatched(xs, ys) ==
    Cardinality({k \in DOMAIN xs : ~ \E j \in DOMAIN ys : Within(xs[k], ys[j])})

\* len(real_chirps) / (len(real_chirps) + fp_counter)
Precision(real_chirps, fp) == <<Len(real_chirps), Len(real_chirps) + fp>>

\* len(detected_chirps) / (len(detected_chirps) + fn_counter)
Recall(detected, fn) == <<Len(detected), Len(detected) + fn>>

\* np.mean of a list of quotients, as one quotient
RECURSIVE SumQ(_)
SumQ(qs) ==
    IF qs = <<>> THEN <<0, 1>>
    ELSE LET rest == SumQ(Tail(qs))
             q == Head(qs)
         IN <<q[1] * rest[2] + rest[1] * q[2], q[2] * rest[2]>>
Mean(qs) == <<SumQ(qs)[1], SumQ(qs)[2] * Len(qs)>>

EvalIdle ==
    /\ gt_times = <<>> /\ gt_ids = <<>>
    /\ chirp_times = <<>> /\ chirp_idents = <<>>
    /\ epc = "idle" /\ fish_ids = <<>> /\ fishPos = 0
    /\ fn_counter = 0 /\ fp_counter = 0
    /\ precs = <<>> /\ recs = <<>> /\ report = None

EvalInit ==
    /\ \E truth \in (Events \ {<<>>}) \cup {ScenarioTruth} :
          gt_times = TimesOf(truth) /\ gt_ids = IdsOf(truth)
    /\ \E found \in Events \cup {ScenarioDetections} :
          chirp_times = TimesOf(found) /\ chirp_idents = IdsOf(found)
    /\ epc = "start" /\ fish_ids = <<>> /\ fishPos = 0
    /\ fn_counter = 0 /\ fp_counter = 0
    /\ precs = <<>> /\ recs = <<>> /\ report = None

\* up to the head of the loop over the identities of the ground truth
StartEval ==
    /\ epc = "start"
    /\ precs' = <<>> /\ recs' = <<>>
    /\ fish_ids' = Unique(gt_ids)
    /\ fishPos' = 1
    /\ epc' = "loop"
    /\ UNCHANGED <<gt_times, gt_ids, chirp_times, chirp_idents, fn_counter,
                   fp_counter, report>>

\* one pass of the loop
EvalIdentity ==
    /\ epc = "loop"
    /\ fishPos <= Len(fish_ids)
    /\ LET fish_id == fish_ids[fishPos]
           real_chirps ==
               Select(gt_times, [k \in DOMAIN gt_ids |-> gt_ids[k] = fish_id], 1)
           detected ==
               Select(chirp_times,
                      [k \in DOMAIN chirp_idents |-> chirp_idents[k] = fish_id], 1)
           fn == CountUnmatched(real_chirps, detected)
           fp == CountUnmatched(detected, real_chirps)
       IN /\ fn_counter' = fn
          /\ fp_counter' = fp
          /\ precs' = Append(precs, Precision(real_chirps, fp))
          /\ recs' = Append(recs, Recall(detected, fn))
    /\ fishPos' = fishPos + 1
    /\ UNCHANGED <<gt_times, gt_ids, chirp_times, chirp_idents, epc, fish_ids,
                   report>>

\* after the loop: the three statistics that are printed
Report ==
    /\ epc = "loop"
    /\ fishPos > Len(fish_ids)
    /\ report' = Some([coverage |-> <<Len(chirp_times), Len(gt_times)>>,
                       precision |-> Mean(precs),
                       recall |-> Mean(recs)])
    /\ epc' = "done"
    /\ UNCHANGED <<gt_times, gt_ids, chirp_times, chirp_idents, fish_ids,
                   fishPos, fn_counter, fp_counter, precs, recs>>

(***************************************************************************)
(* Specifications                                                          *)
(***************************************************************************)
DetectorInputsIdle ==
    /\ mode = "memory" /\ conf_window = 0 /\ conf_stride = 0
    /\ freq_pad = <<0, 0>> /\ plot = FALSE
    /\ fill_times = <<>> /\ fill_spec = <<>> /\ ident_v = <<>>

\* A Detector from construction to the return of detect()
Init == DetectorInit /\ PeaksIdle /\ EvalIdle
Next ==
    \/ ConstructRejects /\ UNCHANGED <<pvars, evars>>
    \/ Construct /\ UNCHANGED <<pvars, evars>>
    \/ DetectDisk /\ UNCHANGED <<pvars, evars>>
    \/ DetectMemory /\ UNCHANGED <<pvars, evars>>
    \/ NextTrack /\ UNCHANGED <<pvars, evars>>
    \/ ScanWindow /\ UNCHANGED <<pvars, evars>>
    \/ ScanWindowRaises /\ UNCHANGED <<pvars, evars>>
    \/ FinishTrack /\ UNCHANGED <<pvars, evars>>
    \/ Concatenate /\ UNCHANGED <<pvars, evars>>
Spec == Init /\ [][Next]_vars

\* find_peaks on every series up to a length
InitPeaks == DetectorInputsIdle /\ DetectorIdle /\ PeaksInit /\ EvalIdle
NextPeaks == ExtractPeaks /\ UNCHANGED <<dvars, evars>>
SpecPeaks == InitPeaks /\ [][NextPeaks]_vars

\* The evaluation of given detections against a given ground truth
InitEval == DetectorInputsIdle /\ DetectorIdle /\ PeaksIdle /\ EvalInit
NextEval ==
    \/ StartEval /\ UNCHANGED <<dvars, pvars>>
    \/ EvalIdentity /\ UNCHANGED <<dvars, pvars>>
    \/ Report /\ UNCHANGED <<dvars, pvars>>
SpecEval == InitEval /\ [][NextEval]_vars

(***************************************************************************)
(* Properties                                                              *)
(***************************************************************************)
Scanned == Len(calls) > 0
Started == pc \in {"track", "window", "aborted", "done"} /\ mode = "memory"
LastIndex == Len(fill_times)
QEq(a, b) == a[1] * b[2] = b[1] * a[2]

\* C1: once detect() has ended in mode disk, the caller has observed an error
\* (not a normal return) and the detector holds no detection results.
C1_DiskSignalsUnimplemented ==
    (mode = "disk" /\ pc = "done") =>
        /\ outcome = "raised"
        /\ detected_chirps = None
        /\ detected_chirp_probs = None
        /\ detected_chirp_ids = None

\* C2: from construction on, window_size and stride are odd; an odd configured
\* value is kept and an even one (0 included) is raised by exactly one.
C2_EffectiveSizesOdd ==
    (pc \notin {"new", "assert_failed"}) =>
        /\ window_size % 2 = 1
        /\ stride % 2 = 1
        /\ (conf_window % 2 = 1) => (window_size = conf_window)
        /\ (conf_window % 2 = 0) => (window_size = conf_window + 1)
        /\ (conf_stride % 2 = 1) => (stride = conf_stride)
        /\ (conf_stride % 2 = 0) => (stride = conf_stride + 1)

C2_Witness ==
    /\ pc = "constructed"
    /\ conf_window = 0 /\ window_size = 1
    /\ conf_stride = 1 /\ stride = 1

\* the indices that are strict local maxima at or above the threshold
StrictPeakSet(p) ==
    {i \in 0..(Len(p) - 1) :
        /\ 0 < i /\ i < Len(p) - 1
        /\ FLt(At(p, i - 1), At(p, i))
        /\ FLt(At(p, i + 1), At(p, i))
        /\ FLe(PeakHeight, At(p, i))}

\* the runs l..r of equal samples, inside the series, with a strictly lower
\* sample on either side
IsRaisedRun(p, l, r) ==
    /\ 0 < l /\ l <= r /\ r < Len(p) - 1
    /\ \A k \in l..r : FEq(At(p, k), At(p, l))
    /\ FLt(At(p, l - 1), At(p, l))
    /\ FLt(At(p, r + 1), At(p, l))

RunPeakSet(p) ==
    {(l + r) \div 2 : <<l, r>> \in
        {lr \in (0..(Len(p) - 1)) \X (0..(Len(p) - 1)) :
            IsRaisedRun(p, lr[1], lr[2]) /\ FLe(PeakHeight, At(p, lr[1]))}}

\* C3 as stated: the reported peak indices are exactly the strict local maxima
\* at or above the threshold, so no index of a plateau is reported.
C3_PeaksAreStrictMaxima ==
    (ppc = "done") => Range(peaks) = StrictPeakSet(probs)

\* C3 amended: the reported peak indices are, in ascending order, exactly the
\* middles (rounded down) of the runs of equal samples that lie inside the
\* series, have a strictly lower sample on either side and are at or above
\* the threshold; the first and the last sample are never reported.
C3_PeaksAreRunMiddles ==
    (ppc = "done") =>
        /\ Range(peaks) = RunPeakSet(probs)
        /\ \A k \in 1..(Len(peaks) - 1) : peaks[k] < peaks[k + 1]
        /\ \A k \in DOMAIN peaks : 0 < peaks[k] /\ peaks[k] < Len(probs) - 1

C3_Witness ==
    /\ ppc = "done"
    /\ \E k \in DOMAIN peaks :
          /\ At(probs, peaks[k]) = At(probs, peaks[k] + 1)
          /\ peaks[k] \notin StrictPeakSet(probs)

\* C4 as stated: the series 0.1, 0.6, 0.3, 0.9, 0.9, 0.2 has exactly one peak,
\* index 3 with value 0.9.
C4_ExampleHasOnePeak ==
    (ppc = "done" /\ probs = ExampleSeries) =>
        peaks = <<3>> /\ At(probs, 3) = 9

\* C4 amended: the series 0.1, 0.6, 0.3, 0.9, 0.9, 0.2 has exactly two peaks,
\* index 1 with value 0.6 and index 3 with value 0.9.
C4_ExampleHasTwoPeaks ==
    (ppc = "done" /\ probs = ExampleSeries) =>
        peaks = <<1, 3>> /\ Take(probs, peaks) = <<6, 9>>

C4_Witness == ppc = "done" /\ probs = ExampleSeries /\ Len(peaks) = 2

TruthOf(id) == {k \in DOMAIN gt_ids : gt_ids[k] = id}
FoundOf(id) == {j \in DOMAIN chirp_idents : chirp_idents[j] = id}
Gap(k, j) == Abs(gt_times[k] - chirp_times[j])
MissedOf(id) == {k \in TruthOf(id) : \A j \in FoundOf(id) : Gap(k, j) >= tolerance}
SpuriousOf(id) == {j \in FoundOf(id) : \A k \in TruthOf(id) : Gap(k, j) >= tolerance}
IsScenario ==
    /\ gt_times = TimesOf(ScenarioTruth) /\ gt_ids = IdsOf(ScenarioTruth)
    /\ chirp_times = TimesOf(ScenarioDetections)
    /\ chirp_idents = IdsOf(ScenarioDetections)
\* the counters behind the p-th precision and recall
FalsePositives(p) == precs[p][2] - precs[p][1]
FalseNegatives(p) == recs[p][2] - recs[p][1]

\* C5: every identity of the ground truth, in turn, gets false_negatives = its
\* truth events with no same-identity detection within tolerance,
\* false_positives = its detections with no same-identity truth event within
\* tolerance, precision = |gt| / (|gt| + fp) and recall = |det| / (|det| + fn);
\* the aggregates are the unweighted means; the two-identity scenario gives
\* fn = 1, fp = 1, 2/3, 2/3, then fn = 1, fp = 0, 1, 0, and means 5/6 and 1/3.
C5_EvaluatorCounts ==
    /\ (epc \in {"loop", "done"}) =>
          /\ Len(precs) = fishPos - 1 /\ Len(recs) = fishPos - 1
          /\ \A k \in DOMAIN gt_ids : \E p \in DOMAIN fish_ids : fish_ids[p] = gt_ids[k]
          /\ \A p \in DOMAIN precs :
                LET id == fish_ids[p]
                    g == Cardinality(TruthOf(id))
                    d == Cardinality(FoundOf(id))
                IN /\ precs[p] = <<g, g + Cardinality(SpuriousOf(id))>>
                   /\ recs[p] = <<d, d + Cardinality(MissedOf(id))>>
                   /\ precs[p][2] > 0 /\ recs[p][2] > 0
          /\ (fishPos > 1) =>
                /\ fn_counter = Cardinality(MissedOf(fish_ids[fishPos - 1]))
                /\ fp_counter = Cardinality(SpuriousOf(fish_ids[fishPos - 1]))
    /\ (epc = "done") =>
          /\ Len(precs) = Cardinality(Range(gt_ids))
          /\ \A r \in report :
                /\ QEq(r.precision, <<SumQ(precs)[1], SumQ(precs)[2] * Len(precs)>>)
                /\ QEq(r.recall, <<SumQ(recs)[1], SumQ(recs)[2] * Len(recs)>>)
          /\ report # None
    /\ (IsScenario /\ epc = "loop" /\ fishPos = 2) =>
          /\ fn_counter = 1 /\ fp_counter = 1
          /\ precs = <<<<2, 3>>>> /\ recs = <<<<2, 3>>>>
    /\ (IsScenario /\ epc = "loop" /\ fishPos = 3) =>
          /\ fn_counter = 1 /\ fp_counter = 0
          /\ precs[2] = <<1, 1>> /\ recs[2] = <<0, 1>>
    /\ (IsScenario /\ epc = "done") =>
          \A r \in report : QEq(r.precision, <<5, 6>>) /\ QEq(r.recall, <<1, 3>>)

C5_Witness == IsScenario /\ epc = "done" /\ Len(precs) = 2

\* C6: for an identity whose truth events and detections are all at least the
\* tolerance apart (a pair exactly the tolerance apart included), every truth
\* event is a false negative and every detection a false positive; a pair
\* strictly closer than the tolerance matches, so its truth event is no false
\* negative and its detection no false positive.
C6_ToleranceExclusive ==
    \A p \in DOMAIN precs :
        LET id == fish_ids[p]
            T == TruthOf(id)
            F == FoundOf(id)
        IN /\ (\A k \in T, j \in F : Gap(k, j) >= tolerance) =>
                 /\ FalseNegatives(p) = Cardinality(T)
                 /\ FalsePositives(p) = Cardinality(F)
           /\ (\A k \in T : \E j \in F : Gap(k, j) < tolerance) =>
                 FalseNegatives(p) = 0
           /\ (\A j \in F : \E k \in T : Gap(k, j) < tolerance) =>
                 FalsePositives(p) = 0
           /\ (\E k \in T, j \in F : Gap(k, j) < tolerance) =>
                 /\ FalseNegatives(p) < Cardinality(T)
                 /\ FalsePositives(p) < Cardinality(F)

C6_Witness ==
    /\ epc = "done"
    /\ \E p \in DOMAIN precs :
          LET id == fish_ids[p] IN
          /\ Cardinality(TruthOf(id)) = 1 /\ Cardinality(FoundOf(id)) = 1
          /\ \A k \in TruthOf(id), j \in FoundOf(id) : Gap(k, j) = tolerance
          /\ FalseNegatives(p) = 1 /\ FalsePositives(p) = 1

\* C7: a window whose crop has zero dynamic range hands the classifier a
\* constant image without NaN, no NaN enters the probability series, and the
\* scan is not aborted by it.
C7_FlatCropRecovered ==
    (Scanned /\ crop_range = 0) =>
        /\ ~HasNaN(snippet)
        /\ IsConstant(snippet)
        /\ \A k \in DOMAIN predicted_probs : predicted_probs[k] # NaN
        /\ pc # "aborted"

\* C8: the classifier is invoked identity after identity in ascending order of
\* the label and, within an identity, in strictly ascending window-center
\* time; the series handed to the peak extraction is ordered in time and the
\* results are accumulated in ascending order of identity.
C8_ScanOrder ==
    /\ \A i, j \in DOMAIN calls :
          (i < j) => \/ calls[i][1] < calls[j][1]
                     \/ calls[i][1] = calls[j][1] /\ calls[i][2] < calls[j][2]
    /\ \A i \in 1..(Len(center_t) - 1) : center_t[i] < center_t[i + 1]
    /\ Len(center_t) = Len(predicted_probs)
    /\ \A i \in 1..(Len(track_ids) - 1) : track_ids[i] < track_ids[i + 1]
    /\ Started => Range(track_ids) = Range(ident_v)
    /\ \A p \in DOMAIN acc_ids :
          /\ \A k \in DOMAIN acc_ids[p] : acc_ids[p][k] = track_ids[p]
          /\ \A k \in 1..(Len(acc_chirps[p]) - 1) :
                acc_chirps[p][k] < acc_chirps[p][k + 1]
    /\ \A c \in DOMAIN calls : \E p \in 1..trackPos :
          p <= Len(track_ids) /\ calls[c][1] = track_ids[p]

C8_Witness ==
    /\ pc = "done" /\ outcome = "returned"
    /\ Len(ident_v) > 1 /\ ident_v[1] > ident_v[2]
    /\ \E i, j, k \in DOMAIN calls :
          /\ i < j /\ j < k
          /\ calls[i][1] = calls[j][1]
          /\ calls[j][1] < calls[k][1]

\* C9 as stated: the window starts are exactly the multiples s of stride with
\* 0 <= s <= last_index - window_size.
C9_StartsInclusive ==
    Started =>
        Range(window_start_indices) =
            {s \in 0..LastIndex : s % stride = 0 /\ s <= LastIndex - window_size}

\* C9 amended: the window starts are, in ascending order, exactly the
\* multiples s of stride with 0 <= s < last_index - window_size: the bound is
\* exclusive, so the full window that ends with the time axis is not scanned;
\* every scanned window is a full window.
C9_StartsExclusive ==
    Started =>
        /\ Range(window_start_indices) =
              {s \in 0..LastIndex : s % stride = 0 /\ s < LastIndex - window_size}
        /\ \A k \in 1..(Len(window_start_indices) - 1) :
              window_start_indices[k] < window_start_indices[k + 1]
        /\ \A k \in DOMAIN window_start_indices :
              window_start_indices[k] + window_size < LastIndex

C9_Witness ==
    /\ Started
    /\ Len(window_start_indices) > 0
    /\ stride > 1
    /\ (LastIndex - window_size) % stride = 0
    /\ window_start_indices[Len(window_start_indices)] + stride
           = LastIndex - window_size

\* C10: the center index of every scanned window is an index of the time
\* axis, has as many window indices before it as after it, and is the index
\* the plotting code marks as the window center.
C10_CenterIsMiddle ==
    Scanned =>
        /\ center_idx \in 0..(LastIndex - 1)
        /\ center_idx - window_start_index
              = (window_start_index + window_size - 1) - center_idx
        /\ center_idx = PlotCenterIdx(window_start_index, window_size)
        /\ \A m \in marked_idx : m = center_idx
====
